---------------------------- MODULE Spec2Model ----------------------------
(***************************************************************************)
(* Model of python/kicon_badge.py: the host-side driver of the KiCon '19   *)
(* badge.  The driver frames commands as [length] ++ body ++ [xor], writes *)
(* them to a serial port and decodes the badge's responses; init() runs    *)
(* the reset handshake.  The serial port is modelled as two byte queues:   *)
(* wire (sent by the badge, not yet arrived) and rx (arrived, unread).     *)
(***************************************************************************)
EXTENDS Integers, Sequences, FiniteSets, TLC

(***************************************************************************)
(* Bounds of the model.                                                    *)
(***************************************************************************)
\* longest response body (status + payload) the modelled badge sends
MaxRespLen == 2
\* most bytes the badge has sent that the driver has not read yet
MaxInFlight == 6
\* longest payload handed to _make_cmd when its frame is decoded again
MaxEchoLen == 2
\* longest byte sequence _crc is called with on its own
MaxCrcLen == 3
\* most calls made in one session
MaxCalls == 2

(***************************************************************************)
(* commands_def: the opcode catalogue (imported at line 25; the module is  *)
(* not part of the sources, only its names are used).  The values are      *)
(* distinct bytes; nothing below depends on more than that.                *)
(***************************************************************************)
CMD_TYPE_RESET == 255
CMD_TYPE_UART == 16
CMD_TYPE_LCD == 32
CMD_TYPE_LED == 48
CMD_TYPE_BTN == 64
CMD_TYPE_I2C == 80
CMD_TYPE_SPI == 96
CMD_LCD_CLEAR == 33
CMD_LCD_REFRESH == 34
CMD_LCD_PIXEL == 35
CMD_LCD_TEXT == 36
CMD_LED_SET == 49
CMD_LED_BLINK == 50
CMD_I2C_CLOCK == 81
CMD_I2C_READ == 82
CMD_I2C_WRITE == 83
CMD_SPI_CONFIG == 97
CMD_SPI_TRANSFER == 98
CMD_RESP_OK == 1
CMD_RESP_RESET == 2

\* class constants, lines 28-29
LED1 == 0
LED2 == 1

(***************************************************************************)
(* Python values.  An int and a bytes object are told apart by a tag, as   *)
(* the code tells them apart (iteration raising TypeError, type(x) == int).*)
(***************************************************************************)
PyInt(n) == [t |-> "int", v |-> n]
PyBytes(s) == [t |-> "bytes", v |-> s]
PyNone == [t |-> "none", v |-> <<>>]
\* an int of 2^31 or more, which the integers of the model cannot hold: its
\* digits in base 65536, most significant first, the first one not 0
PyLong(limbs) == [t |-> "long", v |-> limbs]

\* a[i] ^ b[i] on non-negative Python ints
RECURSIVE BitXor(_, _)
BitXor(a, b) ==
    IF a = 0 THEN b
    ELSE IF b = 0 THEN a
    ELSE ((a + b) % 2) + 2 * BitXor(a \div 2, b \div 2)

\* int.bit_length()
RECURSIVE bit_length(_)
bit_length(n) ==
    IF n = 0 THEN 0
    ELSE IF n < 0 THEN bit_length(0 - n)
    ELSE 1 + bit_length(n \div 2)

Max(a, b) == IF a >= b THEN a ELSE b
Min(a, b) == IF a <= b THEN a ELSE b

\* s[i:j] for 0 <= i, and j counted from the front (0-based, j exclusive)
Slice(s, i, j) ==
    IF j <= i THEN <<>> ELSE SubSeq(s, i + 1, Min(j, Len(s)))
\* s[:-1] and s[1:-1]
AllButLast(s) == Slice(s, 0, Len(s) - 1)
Middle(s) == Slice(s, 1, Len(s) - 1)

\* the for loop of _crc, lines 55-56
\* (the loop over data[lo..hi] starting from crc; a long range is run as
\* its first half and then, from the value that reached, its second half)
RECURSIVE XorRange(_, _, _, _)
XorRange(crc, data, lo, hi) ==
    IF lo > hi THEN crc
    ELSE IF lo = hi THEN BitXor(crc, data[lo])
    ELSE LET first == XorRange(crc, data, lo, (lo + hi) \div 2)
         IN IF first >= 0
            THEN XorRange(first, data, (lo + hi) \div 2 + 1, hi)
            ELSE first
\* XorFold, were each step to shift the running value left by one bit
\* before the XOR
RECURSIVE XorFoldShifting(_, _)
XorFoldShifting(crc, data) ==
    IF data = <<>> THEN crc
    ELSE XorFoldShifting(BitXor((crc * 2) % 256, Head(data)), Tail(data))

XorFold(crc, data) == XorRange(crc, data, 1, Len(data))

\* _crc, lines 51-60: iterate over data; an int is not iterable (TypeError)
\* and is returned as it is
_crc(data) ==
    IF data.t = "bytes" THEN XorFold(0, data.v) ELSE data.v


(***************************************************************************)
(* struct.pack('>...'): a field is [f |-> "B" | "H" | "s", n |-> count,    *)
(* v |-> value].  The result is [err |-> raised struct.error, v |-> bytes].*)
(* B and H raise for a number outside the field's range; they never wrap.  *)
(***************************************************************************)
FB(x) == [f |-> "B", n |-> 1, v |-> x]
FH(x) == [f |-> "H", n |-> 1, v |-> x]
FS(k, s) == [f |-> "s", n |-> k, v |-> s]

\* PackField, were a B field to keep the low eight bits of its number
PackFieldWrapping(fld) ==
    CASE fld.f = "B" -> [err |-> FALSE, v |-> <<fld.v % 256>>]
      [] fld.f = "H" ->
           IF fld.v \in 0..65535
           THEN [err |-> FALSE, v |-> <<fld.v \div 256, fld.v % 256>>]
           ELSE [err |-> TRUE, v |-> <<>>]
      [] fld.f = "s" ->
           [err |-> FALSE,
            v |-> [i \in 1..fld.n |-> IF i <= Len(fld.v) THEN fld.v[i] ELSE 0]]

PackField(fld) ==
    CASE fld.f = "B" ->
           IF fld.v \in 0..255 THEN [err |-> FALSE, v |-> <<fld.v>>]
           ELSE [err |-> TRUE, v |-> <<>>]
      [] fld.f = "H" ->
           IF fld.v \in 0..65535
           THEN [err |-> FALSE, v |-> <<fld.v \div 256, fld.v % 256>>]
           ELSE [err |-> TRUE, v |-> <<>>]
      [] fld.f = "s" ->
           [err |-> FALSE,
            v |-> [i \in 1..fld.n |-> IF i <= Len(fld.v) THEN fld.v[i] ELSE 0]]

RECURSIVE StructPack(_)
StructPack(flds) ==
    IF flds = <<>> THEN [err |-> FALSE, v |-> <<>>]
    ELSE LET h == PackField(Head(flds))
             t == StructPack(Tail(flds))
         IN IF h.err \/ t.err THEN [err |-> TRUE, v |-> <<>>]
            ELSE [err |-> FALSE, v |-> h.v \o t.v]

\* _make_resp, lines 63-64
_make_resp(resp) ==
    StructPack(<<FB(1), FB(resp), FB(_crc(PyInt(resp)))>>)

\* _make_cmd, were the length byte to count the payload without the
\* command byte
_make_cmd_payload_len(cmd, data) ==
    IF data.t # "none"
    THEN LET data_bytes == StructPack(<<FB(cmd), FS(Len(data.v), data.v)>>)
             data_len == Len(data.v)
         IN IF data_bytes.err THEN data_bytes
            ELSE StructPack(<<FB(data_len), FS(data_len + 1, data_bytes.v),
                              FB(_crc(PyBytes(data_bytes.v)))>>)
    ELSE StructPack(<<FB(1), FB(cmd), FB(_crc(PyInt(cmd)))>>)

\* _make_cmd, lines 67-74
_make_cmd(cmd, data) ==
    IF data.t # "none"
    THEN LET data_bytes == StructPack(<<FB(cmd), FS(Len(data.v), data.v)>>)
             data_len == Len(data_bytes.v)
         IN IF data_bytes.err THEN data_bytes
            ELSE StructPack(<<FB(data_len), FS(data_len, data_bytes.v),
                              FB(_crc(PyBytes(data_bytes.v)))>>)
    ELSE StructPack(<<FB(1), FB(cmd), FB(_crc(PyInt(cmd)))>>)

(***************************************************************************)
(* The outcome of a call: kind is "ok" or the exception raised.            *)
(*   invalid_arg    raise Exception(...) of an argument check              *)
(*   struct_error   struct.error raised by struct.pack                     *)
(*   overflow_error OverflowError raised by int.to_bytes                   *)
(*   index_error    IndexError raised by indexing an empty bytes object    *)
(*   crc_error      'CRC error ...', line 86                               *)
(*   status_error   'Response != OK ...', line 90                          *)
(*   reset_failure  'No response after reset', line 114                    *)
(***************************************************************************)
Outcome(k, r) == [kind |-> k, ret |-> r, msg |-> <<>>]
\* an exception whose message is formatted from the values m
Raised(k, m) == [kind |-> k, ret |-> PyNone, msg |-> m]
NoOutcome == Outcome("none", PyNone)

\* get_resp_check, were the status byte not looked at
get_resp_check_no_status(resp_data) ==
    IF resp_data = <<>> THEN Outcome("index_error", PyNone)
    ELSE LET resp_crc == resp_data[Len(resp_data)]
             calc_crc == _crc(PyBytes(AllButLast(resp_data)))
             raw_data == Middle(resp_data)
         IN IF resp_crc # calc_crc THEN Raised("crc_error", <<calc_crc, resp_crc>>)
            ELSE Outcome("ok", PyBytes(raw_data))

\* get_resp_check, were the status byte tested before the checksum
get_resp_check_status_first(resp_data) ==
    IF resp_data = <<>> THEN Outcome("index_error", PyNone)
    ELSE LET resp_type == resp_data[1]
             resp_crc == resp_data[Len(resp_data)]
             calc_crc == _crc(PyBytes(AllButLast(resp_data)))
             raw_data == Middle(resp_data)
         IN IF resp_type # CMD_RESP_OK
                 THEN Raised("status_error", <<resp_type>> \o raw_data)
            ELSE IF resp_crc # calc_crc THEN Raised("crc_error", <<calc_crc, resp_crc>>)
            ELSE Outcome("ok", PyBytes(raw_data))

\* get_resp_check, were the checksum byte left on the payload
get_resp_check_payload_with_crc(resp_data) ==
    IF resp_data = <<>> THEN Outcome("index_error", PyNone)
    ELSE LET resp_type == resp_data[1]
             resp_crc == resp_data[Len(resp_data)]
             calc_crc == _crc(PyBytes(AllButLast(resp_data)))
             raw_data == Slice(resp_data, 1, Len(resp_data))
         IN IF resp_crc # calc_crc THEN Raised("crc_error", <<calc_crc, resp_crc>>)
            ELSE IF resp_type # CMD_RESP_OK
                 THEN Raised("status_error", <<resp_type>> \o raw_data)
            ELSE Outcome("ok", PyBytes(raw_data))

\* lines 80-93 of _get_resp, applied to the bytes the second read returned
get_resp_check(resp_data) ==
    IF resp_data = <<>> THEN Outcome("index_error", PyNone)
    ELSE LET resp_type == resp_data[1]
             resp_crc == resp_data[Len(resp_data)]
             calc_crc == _crc(PyBytes(AllButLast(resp_data)))
             raw_data == Middle(resp_data)
         IN IF resp_crc # calc_crc THEN Raised("crc_error", <<calc_crc, resp_crc>>)
            ELSE IF resp_type # CMD_RESP_OK
                 THEN Raised("status_error", <<resp_type>> \o raw_data)
            ELSE Outcome("ok", PyBytes(raw_data))

\* what a command builds before it touches the serial port: the exception
\* of a failed check or pack, or the frame to write
Prepared(k, f) == [kind |-> k, frame |-> f]
Encode(cmd_type, packed) ==
    IF packed.err THEN Prepared("struct_error", <<>>)
    ELSE LET cmd == _make_cmd(cmd_type, PyBytes(packed.v))
         IN IF cmd.err THEN Prepared("struct_error", <<>>)
            ELSE Prepared("ok", cmd.v)

\* reg_addr.to_bytes(max(1, (reg_addr.bit_length() + 7) // 8), 'big'),
\* lines 220 and 243; a negative int raises OverflowError
RECURSIVE BigEndian(_, _)
BigEndian(n, k) ==
    IF k = 0 THEN <<>> ELSE Append(BigEndian(n \div 256, k - 1), n % 256)
\* to_bytes, were the length always four bytes
to_bytes_fixed4(n) ==
    IF n < 0 THEN [err |-> TRUE, v |-> <<>>]
    ELSE [err |-> FALSE, v |-> BigEndian(n, 4)]

to_bytes(n) ==
    IF n < 0 THEN [err |-> TRUE, v |-> <<>>]
    ELSE [err |-> FALSE, v |-> BigEndian(n, Max(1, (bit_length(n) + 7) \div 8))]

\* the same two calls on an int held as base-65536 digits
long_bit_length(limbs) == 16 * (Len(limbs) - 1) + bit_length(limbs[1])
RECURSIVE LimbBytes(_)
LimbBytes(limbs) ==
    IF limbs = <<>> THEN <<>>
    ELSE <<Head(limbs) \div 256, Head(limbs) % 256>> \o LimbBytes(Tail(limbs))
long_to_bytes(limbs) ==
    LET length == Max(1, (long_bit_length(limbs) + 7) \div 8)
        all == LimbBytes(limbs)
    IN [err |-> FALSE, v |-> SubSeq(all, Len(all) - length + 1, Len(all))]


(***************************************************************************)
(* State.                                                                  *)
(*   pc       where the driver is: "idle", inside init() or a command, or  *)
(*            the way the call ended; "new" before the constructor has run, *)
(*            "unbuilt" when it raised, "deleted" after __del__            *)
(*   op, args the call in progress and its arguments                       *)
(*   trials   init()'s retry counter, line 107                             *)
(*   resp_len _get_resp's first byte, line 78                              *)
(*   resp     what _get_resp returned or raised (when _crc is called on    *)
(*            its own: what its second call returned)                      *)
(*   result   the outcome of the call                                      *)
(*   wire, rx the serial link towards the host                             *)
(*   frame    the bytes of the last write, nwrites / nreads the number of  *)
(*            self._serial.write / read calls of this call                 *)
(*   got      the bytes each read of this call returned (init(): the last  *)
(*            read only)                                                   *)
(*   misses   init(): reads that did not return the expected frame         *)
(*   acked    init(): the badge's reply to the first reset command         *)
(*   _serial  the attribute self._serial: "unset" before line 43 has run,  *)
(*            "None", or "Serial" (the open port object)                   *)
(*   closes   the number of self._serial.close() calls made                *)
(*   badge    the kind of badge on the link: answers (it acknowledges      *)
(*            every reset command and answers every command frame with one *)
(*            complete frame) and prompt (all it sends arrives before the  *)
(*            host's next read)                                            *)
(*   done     the calls of this session that have ended and whose caller   *)
(*            has gone on, each with the way it ended                      *)
(*   sent     what the badge sent in reply to the command frame of the     *)
(*            call in progress                                             *)
(***************************************************************************)
VARIABLES pc, op, args, trials, resp_len, resp, result, wire, rx,
          frame, nwrites, nreads, got, misses, acked,
          _serial, closes, badge, done, sent

vars == <<pc, op, args, trials, resp_len, resp, result, wire, rx,
          frame, nwrites, nreads, got, misses, acked,
          _serial, closes, badge, done, sent>>

\* retry budget of init(), line 113
ResetTrials == 256

\* bytes the modelled badge uses in its responses
RespBytes == {0, CMD_RESP_OK, CMD_RESP_RESET}

RECURSIVE SeqsOfLen(_, _)
SeqsOfLen(S, n) ==
    IF n = 0 THEN {<<>>}
    ELSE {<<x>> \o s : x \in S, s \in SeqsOfLen(S, n - 1)}

\* every response the badge may send to a command: a length byte L and
\* L + 1 bytes, well formed or not
RespFrames ==
    UNION {{<<L>> \o b : b \in SeqsOfLen(RespBytes, L + 1)} : L \in 0..MaxRespLen}

reset_cmd == StructPack(<<FB(CMD_TYPE_RESET)>>).v
reset_resp == _make_resp(CMD_RESP_RESET).v

\* a badge of which nothing is known
AnyBadge == [answers |-> FALSE, prompt |-> FALSE]

\* what the badge may send after a reset command: nothing or the
\* acknowledgment (which may arrive late, or in pieces)
ResetReplies ==
    IF badge.answers THEN {reset_resp} ELSE {<<>>, reset_resp}

Fits(reply) == Len(wire) + Len(rx) + Len(reply) <= MaxInFlight

\* self._serial.write(data): the bytes leave, and the badge sends its
\* reply, which has arrived by the host's next read if the badge is prompt
SerialWrite(data, reply) ==
    /\ frame' = data
    /\ nwrites' = nwrites + 1
    /\ IF badge.prompt
       THEN rx' = rx \o reply /\ wire' = wire
       ELSE wire' = wire \o reply /\ rx' = rx

\* self._serial.read(n): the first n bytes that have arrived, fewer when
\* the 0.5 s timeout (line 44) ends the read
ReadCount(n) == Min(n, Len(rx))
SerialRead(n) == SubSeq(rx, 1, ReadCount(n))
AfterRead(n) == SubSeq(rx, ReadCount(n) + 1, Len(rx))

Init ==
    /\ pc = "idle"
    /\ op = "none"
    /\ args = <<>>
    /\ trials = 0
    /\ resp_len = 0
    /\ resp = NoOutcome
    /\ result = NoOutcome
    /\ wire = <<>>
    /\ rx = <<>>
    /\ frame = <<>>
    /\ nwrites = 0
    /\ nreads = 0
    /\ got = <<>>
    /\ misses = 0
    /\ acked = "none"
    /\ _serial = "Serial"
    /\ closes = 0
    /\ badge = AnyBadge
    /\ done = <<>>
    /\ sent = <<>>

\* one byte sent by the badge arrives at the host
Deliver ==
    /\ wire # <<>>
    /\ rx' = Append(rx, Head(wire))
    /\ wire' = Tail(wire)
    /\ UNCHANGED <<pc, op, args, trials, resp_len, resp, result,
                   frame, nwrites, nreads, got, misses, acked,
                   _serial, closes, badge, done, sent>>

(***************************************************************************)
(* init(), lines 98-114                                                    *)
(***************************************************************************)
\* lines 100-104: build the two byte strings, write the reset command
InitWrite ==
    /\ pc = "idle"
    /\ \E reply \in ResetReplies :
          /\ Fits(reply)
          /\ SerialWrite(reset_cmd, reply)
          /\ acked' = IF reply = reset_resp THEN "ack" ELSE "silent"
    /\ pc' = "init_drain"
    /\ op' = "init"
    /\ UNCHANGED <<args, trials, resp_len, resp, result, nreads, got, misses,
                   _serial, closes, badge, done, sent>>

\* InitDrain, were the first read compared with the expected frame
InitDrainCompared ==
    /\ pc = "init_drain"
    /\ rx' = AfterRead(Len(reset_resp))
    /\ nreads' = nreads + 1
    /\ got' = <<SerialRead(Len(reset_resp))>>
    /\ trials' = 0
    /\ IF SerialRead(Len(reset_resp)) # reset_resp
       THEN /\ pc' = "init_loop"
            /\ misses' = misses + 1
            /\ UNCHANGED result
       ELSE /\ pc' = "returned"
            /\ result' = Outcome("ok", PyNone)
            /\ UNCHANGED misses
    /\ UNCHANGED <<op, args, resp_len, resp, wire, frame, nwrites, acked,
                   _serial, closes, badge, done, sent>>

\* lines 105-107: a read whose result is dropped, then trials = 0
InitDrain ==
    /\ pc = "init_drain"
    /\ rx' = AfterRead(Len(reset_resp))
    /\ nreads' = nreads + 1
    /\ got' = <<SerialRead(Len(reset_resp))>>
    /\ misses' = misses + (IF SerialRead(Len(reset_resp)) # reset_resp THEN 1 ELSE 0)
    /\ trials' = 0
    /\ pc' = "init_loop"
    /\ UNCHANGED <<op, args, resp_len, resp, result, wire, frame, nwrites, acked,
                   _serial, closes, badge, done, sent>>

\* InitLoopRead, were the bytes that arrived compared with as many bytes
\* of the expected frame
InitLoopReadPrefix ==
    /\ pc = "init_loop"
    /\ rx' = AfterRead(Len(reset_resp))
    /\ nreads' = nreads + 1
    /\ got' = <<SerialRead(Len(reset_resp))>>
    /\ IF SerialRead(Len(reset_resp))
            # SubSeq(reset_resp, 1, Len(SerialRead(Len(reset_resp))))
       THEN /\ pc' = "init_resend"
            /\ misses' = misses + 1
            /\ UNCHANGED result
       ELSE /\ pc' = "returned"
            /\ result' = Outcome("ok", PyNone)
            /\ UNCHANGED misses
    /\ UNCHANGED <<op, args, trials, resp_len, resp, wire, frame, nwrites, acked,
                   _serial, closes, badge, done, sent>>

\* line 108: the loop condition; init() returns when the read matches
InitLoopRead ==
    /\ pc = "init_loop"
    /\ rx' = AfterRead(Len(reset_resp))
    /\ nreads' = nreads + 1
    /\ got' = <<SerialRead(Len(reset_resp))>>
    /\ IF SerialRead(Len(reset_resp)) # reset_resp
       THEN /\ pc' = "init_resend"
            /\ misses' = misses + 1
            /\ UNCHANGED result
       ELSE /\ pc' = "returned"
            /\ result' = Outcome("ok", PyNone)
            /\ UNCHANGED misses
    /\ UNCHANGED <<op, args, trials, resp_len, resp, wire, frame, nwrites, acked,
                   _serial, closes, badge, done, sent>>

\* InitResend, were the budget tested before the counter is incremented
InitResendLate ==
    /\ pc = "init_resend"
    /\ \E reply \in ResetReplies :
          /\ Fits(reply)
          /\ SerialWrite(reset_cmd, reply)
    /\ trials' = trials + 1
    /\ IF trials = ResetTrials
       THEN /\ pc' = "raised"
            /\ result' = Outcome("reset_failure", PyNone)
       ELSE /\ pc' = "init_loop"
            /\ UNCHANGED result
    /\ UNCHANGED <<op, args, resp_len, resp, nreads, got, misses, acked,
                   _serial, closes, badge, done, sent>>

\* lines 109-114: the loop body
InitResend ==
    /\ pc = "init_resend"
    /\ \E reply \in ResetReplies :
          /\ Fits(reply)
          /\ SerialWrite(reset_cmd, reply)
    /\ trials' = trials + 1
    /\ IF trials + 1 = ResetTrials
       THEN /\ pc' = "raised"
            /\ result' = Outcome("reset_failure", PyNone)
       ELSE /\ pc' = "init_loop"
            /\ UNCHANGED result
    /\ UNCHANGED <<op, args, resp_len, resp, nreads, got, misses, acked,
                   _serial, closes, badge, done, sent>>

(***************************************************************************)
(* The commands, lines 120-294.  Each checks its arguments, packs its      *)
(* payload, frames it with _make_cmd, writes the frame and calls _get_resp.*)
(* <name>_cmd is what the call has built when it reaches the write.        *)
(***************************************************************************)
\* arguments the calls are made with
DataOfLen(n) == [i \in 1..n |-> i % 256]
LedArgs == {LED1, LED2, 2, -1}
StateArgs == {0, 1}
PeriodArgs == {5, 256}
UartLens == {0, 1, 254, 255}
TextLens == {0, 2, 250, 251}
I2cClockArgs == {0, 1, 400, 401}
\* the ints include 2^32 - 1 and 2^32
RegAddrArgs ==
    {PyInt(0), PyInt(16), PyInt(4660), PyInt(2147483647), PyInt(-1),
     PyLong(<<65535, 65535>>), PyLong(<<1, 0, 0>>),
     PyBytes(<<1, 2, 3, 4>>), PyBytes(<<1, 2, 3, 4, 5>>)}
ReadLenArgs == {-1, 0, 16, 255, 256}
WriteLens == {0, 1, 249, 250, 255, 256}
SpiClockArgs == {0, 1, 60000, 60001}
SpiModeArgs == -1..4
SpiLens == {0, 1, 252, 253, 255, 256}

\* lines 121, 127-128, 134-135, 145-146, 156-158, 194
uart_transfer_cmd(data) ==
    LET cmd == _make_cmd(CMD_TYPE_UART, PyBytes(data))
    IN IF cmd.err THEN Prepared("struct_error", <<>>) ELSE Prepared("ok", cmd.v)
lcd_clear_cmd == Encode(CMD_TYPE_LCD, StructPack(<<FB(CMD_LCD_CLEAR)>>))
lcd_refresh_cmd == Encode(CMD_TYPE_LCD, StructPack(<<FB(CMD_LCD_REFRESH)>>))
lcd_pixel_cmd(x, y, color) ==
    Encode(CMD_TYPE_LCD, StructPack(<<FB(CMD_LCD_PIXEL), FB(x), FB(y), FB(color)>>))
lcd_text_cmd(row, col, text) ==
    Encode(CMD_TYPE_LCD,
           StructPack(<<FB(CMD_LCD_TEXT), FB(row), FB(col), FB(Len(text)),
                        FS(Len(text), text)>>))
buttons_cmd ==
    LET cmd == _make_cmd(CMD_TYPE_BTN, PyNone)
    IN IF cmd.err THEN Prepared("struct_error", <<>>) ELSE Prepared("ok", cmd.v)

\* lines 167-171
led_set_cmd(led, state) ==
    IF ~(led \in {LED1, LED2}) THEN Prepared("invalid_arg", <<>>)
    ELSE Encode(CMD_TYPE_LED, StructPack(<<FB(CMD_LED_SET), FB(led), FB(state)>>))

\* lines 180-184
led_blink_cmd(led, period) ==
    IF ~(led \in {LED1, LED2}) THEN Prepared("invalid_arg", <<>>)
    ELSE Encode(CMD_TYPE_LED, StructPack(<<FB(CMD_LED_BLINK), FB(led), FB(period)>>))

\* lines 204-208
i2c_set_clock_khz_cmd(clock_khz) ==
    IF clock_khz < 1 \/ clock_khz > 400 THEN Prepared("invalid_arg", <<>>)
    ELSE Encode(CMD_TYPE_I2C, StructPack(<<FB(CMD_I2C_CLOCK), FH(clock_khz)>>))

\* lines 219-220 and 242-243: an int register address becomes bytes
RegAddrBytes(reg_addr) ==
    IF reg_addr.t = "int" THEN to_bytes(reg_addr.v)
    ELSE IF reg_addr.t = "long" THEN long_to_bytes(reg_addr.v)
    ELSE [err |-> FALSE, v |-> reg_addr.v]

\* lines 219-232
i2c_read_cmd(dev_addr, reg_addr, length) ==
    LET conv == RegAddrBytes(reg_addr)
        reg_addr_len == Len(conv.v)
    IN IF conv.err THEN Prepared("overflow_error", <<>>)
       ELSE IF reg_addr_len > 4 THEN Prepared("invalid_arg", <<>>)
       ELSE IF length < 0 \/ length > 255 THEN Prepared("invalid_arg", <<>>)
       ELSE Encode(CMD_TYPE_I2C,
                   StructPack(<<FB(CMD_I2C_READ), FB(dev_addr), FB(reg_addr_len),
                                FS(reg_addr_len, conv.v), FB(length)>>))

\* i2c_write_cmd, were the data length limit one too low
i2c_write_cmd_limit_254(dev_addr, reg_addr, data) ==
    LET conv == RegAddrBytes(reg_addr)
        reg_addr_len == Len(conv.v)
        data_len == Len(data)
    IN IF conv.err THEN Prepared("overflow_error", <<>>)
       ELSE IF reg_addr_len > 4 THEN Prepared("invalid_arg", <<>>)
       ELSE IF data_len >= 255 THEN Prepared("invalid_arg", <<>>)
       ELSE Encode(CMD_TYPE_I2C,
                   StructPack(<<FB(CMD_I2C_WRITE), FB(dev_addr), FB(reg_addr_len),
                                FS(reg_addr_len, conv.v), FB(data_len),
                                FS(data_len, data)>>))

\* lines 242-256
i2c_write_cmd(dev_addr, reg_addr, data) ==
    LET conv == RegAddrBytes(reg_addr)
        reg_addr_len == Len(conv.v)
        data_len == Len(data)
    IN IF conv.err THEN Prepared("overflow_error", <<>>)
       ELSE IF reg_addr_len > 4 THEN Prepared("invalid_arg", <<>>)
       ELSE IF data_len > 255 THEN Prepared("invalid_arg", <<>>)
       ELSE Encode(CMD_TYPE_I2C,
                   StructPack(<<FB(CMD_I2C_WRITE), FB(dev_addr), FB(reg_addr_len),
                                FS(reg_addr_len, conv.v), FB(data_len),
                                FS(data_len, data)>>))

\* spi_config_cmd, were the upper mode limit one too high
spi_config_cmd_mode_4(clock_khz, mode) ==
    IF clock_khz < 1 \/ clock_khz > 60000 THEN Prepared("invalid_arg", <<>>)
    ELSE IF mode < 0 \/ mode > 4 THEN Prepared("invalid_arg", <<>>)
    ELSE Encode(CMD_TYPE_SPI, StructPack(<<FB(CMD_SPI_CONFIG), FH(clock_khz), FB(mode)>>))

\* lines 269-276
spi_config_cmd(clock_khz, mode) ==
    IF clock_khz < 1 \/ clock_khz > 60000 THEN Prepared("invalid_arg", <<>>)
    ELSE IF mode < 0 \/ mode > 3 THEN Prepared("invalid_arg", <<>>)
    ELSE Encode(CMD_TYPE_SPI, StructPack(<<FB(CMD_SPI_CONFIG), FH(clock_khz), FB(mode)>>))

\* lines 285-292
spi_transfer_cmd(data_in) ==
    LET data_in_len == Len(data_in)
    IN IF data_in_len < 0 \/ data_in_len > 255 THEN Prepared("invalid_arg", <<>>)
       ELSE Encode(CMD_TYPE_SPI,
                   StructPack(<<FB(CMD_SPI_TRANSFER), FB(data_in_len),
                                FS(data_in_len, data_in)>>))

\* a response with one bit of its last byte flipped
FlipBit(b, k) == IF (b \div (2^k)) % 2 = 1 THEN b - 2^k ELSE b + 2^k
FlipChecksum(f, k) == [f EXCEPT ![Len(f)] = FlipBit(f[Len(f)], k)]
\* a frame whose length byte counts its body and whose last byte is the
\* XOR of the body
WellFormed(f) ==
    /\ Len(f) >= 2
    /\ f[1] = Len(f) - 2
    /\ f[Len(f)] = XorFold(0, SubSeq(f, 2, Len(f) - 1))
FlippedFrames ==
    {FlipChecksum(f, k) : f \in {g \in RespFrames : WellFormed(g)}, k \in 0..7}

\* what the badge may send after a command frame
CommandReplies ==
    IF badge.answers THEN RespFrames
    ELSE {<<>>} \cup RespFrames \cup FlippedFrames

\* a command up to its self._serial.write(cmd): the exception raised
\* before it, or the write
Call(name, a, prepared) ==
    /\ pc = "idle"
    /\ op' = name
    /\ args' = a
    /\ IF prepared.kind = "ok"
       THEN /\ \E reply \in CommandReplies :
                  /\ Fits(reply)
                  /\ SerialWrite(prepared.frame, reply)
                  /\ sent' = reply
            /\ pc' = "get_resp_len"
            /\ UNCHANGED result
       ELSE /\ pc' = "raised"
            /\ result' = Outcome(prepared.kind, PyNone)
            /\ UNCHANGED <<frame, nwrites, wire, rx, sent>>
    /\ UNCHANGED <<trials, resp_len, resp, nreads, got, misses, acked,
                   _serial, closes, badge, done>>

uart_transfer ==
    \E n \in UartLens :
        Call("uart_transfer", <<DataOfLen(n)>>, uart_transfer_cmd(DataOfLen(n)))
lcd_clear == Call("lcd_clear", <<>>, lcd_clear_cmd)
lcd_refresh == Call("lcd_refresh", <<>>, lcd_refresh_cmd)
lcd_pixel ==
    \E c \in {<<0, 0, 0>>, <<127, 63, 1>>} :
        Call("lcd_pixel", c, lcd_pixel_cmd(c[1], c[2], c[3]))
lcd_text ==
    \E n \in TextLens :
        Call("lcd_text", <<7, 0, DataOfLen(n)>>, lcd_text_cmd(7, 0, DataOfLen(n)))
led_set ==
    \E led \in LedArgs, state \in StateArgs :
        Call("led_set", <<led, state>>, led_set_cmd(led, state))
led_blink ==
    \E led \in LedArgs, period \in PeriodArgs :
        Call("led_blink", <<led, period>>, led_blink_cmd(led, period))
buttons == Call("buttons", <<>>, buttons_cmd)
i2c_set_clock_khz ==
    \E clock_khz \in I2cClockArgs :
        Call("i2c_set_clock_khz", <<clock_khz>>, i2c_set_clock_khz_cmd(clock_khz))
i2c_read ==
    \E reg_addr \in RegAddrArgs, length \in ReadLenArgs :
        Call("i2c_read", <<80, reg_addr, length>>, i2c_read_cmd(80, reg_addr, length))
i2c_write ==
    \E reg_addr \in RegAddrArgs, n \in WriteLens :
        Call("i2c_write", <<80, reg_addr, DataOfLen(n)>>,
             i2c_write_cmd(80, reg_addr, DataOfLen(n)))
spi_config ==
    \E clock_khz \in SpiClockArgs, mode \in SpiModeArgs :
        Call("spi_config", <<clock_khz, mode>>, spi_config_cmd(clock_khz, mode))
spi_transfer ==
    \E n \in SpiLens :
        Call("spi_transfer", <<DataOfLen(n)>>, spi_transfer_cmd(DataOfLen(n)))

\* what the command makes of _get_resp's return value: lines 123, 210, 234
\* and 294 return it, line 196 returns its first byte, the others drop it
Returned(name, raw) ==
    IF name \in {"uart_transfer", "i2c_set_clock_khz", "i2c_read", "spi_transfer"}
    THEN Outcome("ok", PyBytes(raw))
    ELSE IF name = "buttons"
    THEN (IF raw = <<>> THEN Outcome("index_error", PyNone)
          ELSE Outcome("ok", PyInt(raw[1])))
    ELSE Outcome("ok", PyNone)

\* line 78: resp_len = self._serial.read(1)[0]
GetRespLen ==
    /\ pc = "get_resp_len"
    /\ rx' = AfterRead(1)
    /\ nreads' = nreads + 1
    /\ got' = Append(got, SerialRead(1))
    /\ IF SerialRead(1) = <<>>
       THEN /\ pc' = "raised"
            /\ resp' = Outcome("index_error", PyNone)
            /\ result' = Outcome("index_error", PyNone)
            /\ UNCHANGED resp_len
       ELSE /\ pc' = "get_resp_body"
            /\ resp_len' = SerialRead(1)[1]
            /\ UNCHANGED <<resp, result>>
    /\ UNCHANGED <<op, args, trials, wire, frame, nwrites, misses, acked,
                   _serial, closes, badge, done, sent>>

\* GetRespBody, were a response that fails its checks read again
GetRespBodyRetrying ==
    /\ pc = "get_resp_body"
    /\ rx' = AfterRead(resp_len + 1)
    /\ nreads' = nreads + 1
    /\ got' = Append(got, SerialRead(resp_len + 1))
    /\ LET r == get_resp_check(SerialRead(resp_len + 1))
       IN /\ resp' = r
          /\ result' = IF r.kind = "ok" THEN Returned(op, r.ret.v) ELSE r
          /\ pc' = IF r.kind = "ok"
                   THEN (IF Returned(op, r.ret.v).kind = "ok"
                         THEN "returned" ELSE "raised")
                   ELSE IF nreads < 3 THEN "get_resp_body" ELSE "raised"
    /\ UNCHANGED <<op, args, trials, resp_len, wire, frame, nwrites, misses, acked,
                   _serial, closes, badge, done, sent>>

\* GetRespBody, were the status byte read and tested on its own, before
\* the rest of the response is read
GetRespBodyStatusAlone ==
    /\ pc = "get_resp_body"
    /\ IF rx # <<>> /\ rx[1] # CMD_RESP_OK
       THEN /\ rx' = AfterRead(1)
            /\ nreads' = nreads + 1
            /\ got' = Append(got, SerialRead(1))
            /\ resp' = Raised("status_error", SerialRead(1))
            /\ result' = Raised("status_error", SerialRead(1))
            /\ pc' = "raised"
       ELSE /\ rx' = AfterRead(resp_len + 1)
            /\ nreads' = nreads + 1
            /\ got' = Append(got, SerialRead(resp_len + 1))
            /\ LET r == get_resp_check(SerialRead(resp_len + 1))
               IN /\ resp' = r
                  /\ result' = IF r.kind = "ok" THEN Returned(op, r.ret.v) ELSE r
                  /\ pc' = IF r.kind = "ok" /\ Returned(op, r.ret.v).kind = "ok"
                           THEN "returned" ELSE "raised"
    /\ UNCHANGED <<op, args, trials, resp_len, wire, frame, nwrites, misses, acked,
                   _serial, closes, badge, done, sent>>

\* lines 79-93, and the caller's use of the return value
GetRespBody ==
    /\ pc = "get_resp_body"
    /\ rx' = AfterRead(resp_len + 1)
    /\ nreads' = nreads + 1
    /\ got' = Append(got, SerialRead(resp_len + 1))
    /\ LET r == get_resp_check(SerialRead(resp_len + 1))
       IN /\ resp' = r
          /\ result' = IF r.kind = "ok" THEN Returned(op, r.ret.v) ELSE r
          /\ pc' = IF r.kind = "ok" /\ Returned(op, r.ret.v).kind = "ok"
                   THEN "returned" ELSE "raised"
    /\ UNCHANGED <<op, args, trials, resp_len, wire, frame, nwrites, misses, acked,
                   _serial, closes, badge, done, sent>>

\* init() and the link
NextInit ==
    \/ Deliver
    \/ InitWrite
    \/ InitDrain
    \/ InitLoopRead
    \/ InitResend

\* the commands and the link
NextCmd ==
    \/ Deliver
    \/ uart_transfer
    \/ lcd_clear
    \/ lcd_refresh
    \/ lcd_pixel
    \/ lcd_text
    \/ led_set
    \/ led_blink
    \/ buttons
    \/ i2c_set_clock_khz
    \/ i2c_read
    \/ i2c_write
    \/ spi_config
    \/ spi_transfer
    \/ GetRespLen
    \/ GetRespBody

Next == NextInit \/ NextCmd

\* a session that makes one call
Spec == Init /\ [][Next]_vars
\* a session that calls init()
SpecInit == Init /\ [][NextInit]_vars
\* a session that calls one command
SpecCmd == Init /\ [][NextCmd]_vars


(***************************************************************************)
(* _make_cmd and _get_resp back to back: the frame _make_cmd builds is     *)
(* written to a link that sends every byte back, and _get_resp decodes it. *)
(***************************************************************************)
\* the arguments _make_cmd is called with: a command byte (256 does not fit
\* a B field) and a payload, or None
EchoCmds == {0, CMD_RESP_OK, CMD_TYPE_LCD, 255, 256}
EchoBytes == {0, CMD_RESP_OK, 255}
EchoData ==
    {PyNone} \cup
    {PyBytes(s) : s \in UNION {SeqsOfLen(EchoBytes, n) : n \in 0..MaxEchoLen}}

\* lines 67-74, then self._serial.write of the frame on the echoing link
make_cmd_echo ==
    /\ pc = "idle"
    /\ \E cmd \in EchoCmds, data \in EchoData :
          LET built == _make_cmd(cmd, data)
          IN /\ op' = "_make_cmd"
             /\ args' = <<cmd, data>>
             /\ IF built.err
                THEN /\ pc' = "raised"
                     /\ result' = Outcome("struct_error", PyNone)
                     /\ UNCHANGED <<frame, nwrites, wire, rx, sent>>
                ELSE /\ Fits(built.v)
                     /\ SerialWrite(built.v, built.v)
                     /\ sent' = built.v
                     /\ pc' = "get_resp_len"
                     /\ UNCHANGED result
    /\ UNCHANGED <<trials, resp_len, resp, nreads, got, misses, acked,
                   _serial, closes, badge, done>>

NextRoundTrip ==
    \/ Deliver
    \/ make_cmd_echo
    \/ GetRespLen
    \/ GetRespBody

\* a session in which one frame built by _make_cmd comes back
SpecRoundTrip == Init /\ [][NextRoundTrip]_vars

(***************************************************************************)
(* The life of the session object, lines 42-48.  __del__ runs once, when   *)
(* nothing refers to the object any more: not during a call, whose frame   *)
(* holds self.                                                             *)
(***************************************************************************)
\* KiconBadge(port) is about to be evaluated
InitNew ==
    /\ pc = "new"
    /\ op = "none"
    /\ args = <<>>
    /\ trials = 0
    /\ resp_len = 0
    /\ resp = NoOutcome
    /\ result = NoOutcome
    /\ wire = <<>>
    /\ rx = <<>>
    /\ frame = <<>>
    /\ nwrites = 0
    /\ nreads = 0
    /\ got = <<>>
    /\ misses = 0
    /\ acked = "none"
    /\ _serial = "unset"
    /\ closes = 0
    /\ badge = AnyBadge
    /\ done = <<>>
    /\ sent = <<>>

\* __init__, were self._serial not set to None first
__init__unset ==
    /\ pc = "new"
    /\ \E opened \in BOOLEAN :
          IF opened
          THEN /\ _serial' = "Serial"
               /\ pc' = "idle"
               /\ UNCHANGED result
          ELSE /\ _serial' = "unset"
               /\ pc' = "unbuilt"
               /\ result' = Outcome("serial_error", PyNone)
    /\ UNCHANGED <<op, args, trials, resp_len, resp, wire, rx, frame, nwrites,
                   nreads, got, misses, acked, closes, badge, done, sent>>

\* lines 42-44: serial.Serial(...) returns the open port or raises, and
\* then the attribute keeps the None of line 43
__init__ ==
    /\ pc = "new"
    /\ \E opened \in BOOLEAN :
          IF opened
          THEN /\ _serial' = "Serial"
               /\ pc' = "idle"
               /\ UNCHANGED result
          ELSE /\ _serial' = "None"
               /\ pc' = "unbuilt"
               /\ result' = Outcome("serial_error", PyNone)
    /\ UNCHANGED <<op, args, trials, resp_len, resp, wire, rx, frame, nwrites,
                   nreads, got, misses, acked, closes, badge, done, sent>>

\* lines 46-48; reading an attribute that was never set raises
\* AttributeError
__del__ ==
    /\ pc \in {"idle", "returned", "raised", "unbuilt"}
    /\ IF _serial = "unset"
       THEN pc' = "del_raised" /\ UNCHANGED closes
       ELSE IF _serial = "Serial"
       THEN pc' = "deleted" /\ closes' = closes + 1
       ELSE pc' = "deleted" /\ UNCHANGED closes
    /\ UNCHANGED <<op, args, trials, resp_len, resp, result, wire, rx, frame,
                   nwrites, nreads, got, misses, acked, _serial, badge, done, sent>>

NextLife ==
    \/ __init__
    \/ Deliver
    \/ InitWrite
    \/ InitDrain
    \/ InitLoopRead
    \/ InitResend
    \/ buttons
    \/ GetRespLen
    \/ GetRespBody
    \/ __del__

\* a session from its construction to its end, with at most one call
SpecLife == InitNew /\ [][NextLife]_vars

(***************************************************************************)
(* Sessions of several calls.  When a call has returned or raised, its     *)
(* caller may go on to the next call: the locals of the call are gone, the *)
(* serial port keeps the bytes that were not read.                         *)
(***************************************************************************)
Return ==
    /\ pc \in {"returned", "raised"}
    /\ Len(done) + 1 < MaxCalls
    /\ done' = Append(done, [op |-> op, kind |-> result.kind])
    /\ pc' = "idle"
    /\ op' = "none"
    /\ args' = <<>>
    /\ trials' = 0
    /\ resp_len' = 0
    /\ resp' = NoOutcome
    /\ result' = NoOutcome
    /\ frame' = <<>>
    /\ nwrites' = 0
    /\ nreads' = 0
    /\ got' = <<>>
    /\ misses' = 0
    /\ acked' = "none"
    /\ sent' = <<>>
    /\ UNCHANGED <<wire, rx, _serial, closes, badge>>

\* the state after construction, on a link to the badge b
InitOn(b) ==
    /\ pc = "idle"
    /\ op = "none"
    /\ args = <<>>
    /\ trials = 0
    /\ resp_len = 0
    /\ resp = NoOutcome
    /\ result = NoOutcome
    /\ wire = <<>>
    /\ rx = <<>>
    /\ frame = <<>>
    /\ nwrites = 0
    /\ nreads = 0
    /\ got = <<>>
    /\ misses = 0
    /\ acked = "none"
    /\ _serial = "Serial"
    /\ closes = 0
    /\ badge = b
    /\ done = <<>>
    /\ sent = <<>>

\* a badge that acknowledges every reset command and answers every command
\* frame with one complete frame, after any delay
InitAnswering == InitOn([answers |-> TRUE, prompt |-> FALSE])
\* the same, with every byte arrived before the host's next read
InitPrompt == InitOn([answers |-> TRUE, prompt |-> TRUE])

\* init() first, then commands
NextAfterInit ==
    \/ Deliver
    \/ (done = <<>> /\ InitWrite)
    \/ InitDrain
    \/ InitLoopRead
    \/ InitResend
    \/ Return
    \/ (done # <<>> /\ buttons)
    \/ GetRespLen
    \/ GetRespBody

SpecAfterInit == InitAnswering /\ [][NextAfterInit]_vars

\* one command after another
NextSeq ==
    \/ buttons
    \/ lcd_clear
    \/ GetRespLen
    \/ GetRespBody
    \/ Return

SpecSeq == InitPrompt /\ [][NextSeq]_vars

(***************************************************************************)
(* _crc on its own, lines 51-60: called twice, on a byte sequence and on   *)
(* the same bytes in another order, or on an int and on the one-element    *)
(* sequence holding it.                                                    *)
(***************************************************************************)
CrcBytes == {0, 1, 6, 255}
CrcInputs == UNION {SeqsOfLen(CrcBytes, n) : n \in 0..MaxCrcLen}
Perms(n) == {p \in [1..n -> 1..n] : \A i, j \in 1..n : p[i] = p[j] => i = j}
Permuted(s, p) == [i \in 1..Len(s) |-> s[p[i]]]
crc_calls ==
    /\ pc = "idle"
    /\ \E s \in CrcInputs :
          \E pair \in {<<PyBytes(s), PyBytes(Permuted(s, p))>> : p \in Perms(Len(s))}
                      \cup {<<PyInt(b), PyBytes(<<b>>)>> : b \in CrcBytes} :
             /\ op' = "_crc"
             /\ args' = pair
             /\ result' = Outcome("ok", PyInt(_crc(pair[1])))
             /\ resp' = Outcome("ok", PyInt(_crc(pair[2])))
             /\ pc' = "returned"
    /\ UNCHANGED <<trials, resp_len, wire, rx, frame, nwrites, nreads, got,
                   misses, acked, _serial, closes, badge, done, sent>>

NextCrc == crc_calls

\* a session that only computes checksums
SpecCrc == Init /\ [][NextCrc]_vars

(***************************************************************************)
(* Properties.                                                             *)
(***************************************************************************)
\* XOR of a byte sequence, bit by bit: bit k of the result is the parity of
\* the number of bytes with bit k set
BitOf(b, k) == (b \div (2^k)) % 2
ParityBit(s, k) == Cardinality({i \in 1..Len(s) : BitOf(s[i], k) = 1}) % 2
XorOfBytes(s) ==
    ParityBit(s, 0) + 2 * ParityBit(s, 1) + 4 * ParityBit(s, 2)
    + 8 * ParityBit(s, 3) + 16 * ParityBit(s, 4) + 32 * ParityBit(s, 5)
    + 64 * ParityBit(s, 6) + 128 * ParityBit(s, 7)

InitReturned == op = "init" /\ pc = "returned"
InitFailed == op = "init" /\ pc = "raised"
\* the expected acknowledgment, written out
ExpectedAck == <<1, CMD_RESP_RESET, CMD_RESP_RESET>>

\* C1, as claimed, for the run in which the acknowledgment of the first
\* reset command is what the first read returns: init() returns having
\* written the reset command once.
C1_FirstAckNoResend ==
    (InitReturned /\ acked = "ack" /\ nreads - misses = 2) => nwrites = 1

\* C1, amended: init() returns only on a read of its retry loop (never on
\* the read of line 105, whose result is dropped) that returned the exact
\* acknowledgment, and has then written the reset command once plus once
\* per loop read that did not match; it does not resend after the match.
C1_ReturnsOnFirstLoopMatch ==
    InitReturned =>
        /\ got = <<ExpectedAck>>
        /\ nreads = trials + 2
        /\ nwrites = trials + 1
        /\ misses \in {trials, trials + 1}

\* C1 witness: the badge acknowledged the first reset command, the first
\* loop read returned that acknowledgment, and nothing was resent.
C1_Witness ==
    InitReturned /\ acked = "ack" /\ nwrites = 1 /\ trials = 0

\* C2, as claimed: when no read ever returned the acknowledgment, init()
\* fails after exactly 256 reads that did not match.
C2_Exactly256Reads ==
    (InitFailed /\ misses = nreads) => misses = 256

\* C2, amended: init() fails with 'No response after reset' after exactly
\* 256 loop reads that did not match, which is 257 reads and 257 writes of
\* the reset command counting the read of line 105 and the first write;
\* after the failure it reads and writes nothing more.
C2_FailsAfter256LoopReads ==
    /\ [](InitFailed =>
            /\ result = Outcome("reset_failure", PyNone)
            /\ trials = 256
            /\ nreads = 257
            /\ nwrites = 257
            /\ misses \in {256, 257}
            /\ got # <<ExpectedAck>>)
    /\ [](op = "init" /\ trials = 256 => pc = "raised")
    /\ [][InitFailed => (nreads' = nreads /\ nwrites' = nwrites /\ pc' = pc)]_vars

\* C2 witness: init() has failed and none of its reads matched.
C2_Witness ==
    InitFailed /\ misses = nreads /\ result.kind = "reset_failure"


(***************************************************************************)
(* The commands' responses.                                                *)
(***************************************************************************)
IsCommand == op \notin {"none", "init"}
Terminal == pc \in {"returned", "raised"}
\* both reads of _get_resp returned all the bytes they asked for
FullyDelivered ==
    /\ Len(got) = 2
    /\ Len(got[1]) = 1
    /\ Len(got[2]) = got[1][1] + 1
\* a read of _get_resp returned fewer bytes than it asked for
ShortRead ==
    \/ Len(got) >= 1 /\ got[1] = <<>>
    \/ Len(got) = 2 /\ Len(got[2]) < got[1][1] + 1
\* two bytes that differ in exactly one bit
SingleBitApart(a, b) ==
    Cardinality({k \in 0..7 : BitOf(a, k) # BitOf(b, k)}) = 1

\* C3: for a response delivered in full (a length byte L, then L + 1
\* bytes), _get_resp returns the bytes between the first and the last of
\* the L + 1 exactly when the XOR of the first L of them (status and
\* payload) equals the last and the first is CMD_RESP_OK; otherwise it
\* raises the checksum or the status error and returns nothing.
C3_ReturnsIffChecksumAndStatus ==
    (IsCommand /\ Terminal /\ FullyDelivered) =>
        LET L == got[1][1]
            body == got[2]
            good == /\ XorOfBytes(SubSeq(body, 1, L)) = body[L + 1]
                    /\ body[1] = CMD_RESP_OK
        IN IF good
           THEN /\ resp.kind = "ok"
                /\ resp.ret.t = "bytes"
                /\ resp.ret.v = SubSeq(body, 2, L)
           ELSE /\ resp.kind \in {"crc_error", "status_error"}
                /\ resp.ret = PyNone
                /\ pc = "raised"
                /\ result = resp

\* C3 witness: a response with a payload byte, delivered in full and
\* returned.
C3_Witness ==
    /\ IsCommand /\ Terminal /\ FullyDelivered
    /\ resp.kind = "ok"
    /\ Len(resp.ret.v) >= 1

\* C4, as claimed: when a read of _get_resp returned fewer bytes than it
\* asked for, the call raises and _get_resp returns no payload.
C4_ShortReadIsAFailure ==
    (IsCommand /\ Terminal /\ ShortRead) => (pc = "raised" /\ resp.kind # "ok")

\* C5, as claimed: led_set(LED1, 1) writes a frame whose length byte is 3.
C5_LedSetFrameLength3 ==
    (op = "led_set" /\ args = <<LED1, 1>>) =>
        /\ nwrites = 1
        /\ frame = <<3, CMD_TYPE_LED, CMD_LED_SET, 0, 1,
                     XorOfBytes(<<CMD_TYPE_LED, CMD_LED_SET, 0, 1>>)>>

\* C5, amended: led_set(LED1, 1) writes exactly the frame
\* [4, CMD_TYPE_LED, CMD_LED_SET, 0, 1, checksum]: the length byte counts
\* the four bytes between itself and the checksum, which is the XOR of
\* those four bytes.
C5_LedSetFrameLength4 ==
    (op = "led_set" /\ args = <<LED1, 1>>) =>
        /\ nwrites = 1
        /\ frame = <<4, CMD_TYPE_LED, CMD_LED_SET, 0, 1,
                     XorOfBytes(<<CMD_TYPE_LED, CMD_LED_SET, 0, 1>>)>>

\* C5 witness: led_set(LED1, 1) has written its frame.
C5_Witness ==
    op = "led_set" /\ args = <<LED1, 1>> /\ nwrites = 1 /\ Len(frame) = 6

(***************************************************************************)
(* The documented argument ranges.                                         *)
(***************************************************************************)
ValidatedOps ==
    {"led_set", "led_blink", "i2c_set_clock_khz", "i2c_read", "i2c_write",
     "spi_config", "spi_transfer"}
\* the serialized length of a register address: the length of a bytes
\* object, the fewest bytes that hold an unsigned integer
RegAddrLen(reg_addr) ==
    IF reg_addr.t = "bytes" THEN Len(reg_addr.v)
    ELSE IF reg_addr.t = "long"
    THEN 2 * (Len(reg_addr.v) - 1) + (IF reg_addr.v[1] < 256 THEN 1 ELSE 2)
    ELSE IF reg_addr.v < 256 THEN 1
    ELSE IF reg_addr.v < 65536 THEN 2
    ELSE IF reg_addr.v < 16777216 THEN 3
    ELSE 4
\* a register address that serializes to at most four bytes
RegAddrInRange(reg_addr) ==
    (reg_addr.t = "int" => reg_addr.v >= 0) /\ RegAddrLen(reg_addr) <= 4
InRange ==
    CASE op \in {"led_set", "led_blink"} -> args[1] \in {LED1, LED2}
      [] op = "i2c_set_clock_khz" -> args[1] \in 1..400
      [] op = "i2c_read" -> RegAddrInRange(args[2]) /\ args[3] \in 0..255
      [] op = "i2c_write" -> RegAddrInRange(args[2]) /\ Len(args[3]) <= 255
      [] op = "spi_config" -> args[1] \in 1..60000 /\ args[2] \in 0..3
      [] op = "spi_transfer" -> Len(args[1]) <= 255
      [] OTHER -> TRUE
NothingSentOrRead ==
    /\ nwrites = 0 /\ nreads = 0
    /\ frame = <<>> /\ wire = <<>> /\ rx = <<>> /\ got = <<>>

\* C6: a validated operation called with an argument outside its
\* documented range raises before any byte is written or read; called with
\* arguments in range it is not rejected by the argument checks.
C6_OutOfRangeRaisesBeforeIO ==
    (op \in ValidatedOps) =>
        IF InRange
        THEN result.kind \notin {"invalid_arg", "overflow_error"}
        ELSE /\ pc = "raised"
             /\ result.kind \in {"invalid_arg", "overflow_error"}
             /\ NothingSentOrRead

\* C6 witness: spi_config called with mode 4 has raised.
C6_Witness ==
    op = "spi_config" /\ args[1] \in 1..60000 /\ args[2] = 4 /\ pc = "raised"

\* C7: i2c_write with 255 data bytes is not rejected as an invalid
\* argument; with 256 it raises the invalid-argument error and nothing is
\* written.
C7_I2cWrite255Passes256Fails ==
    (op = "i2c_write") =>
        /\ (RegAddrInRange(args[2]) /\ Len(args[3]) = 255) =>
               result.kind # "invalid_arg"
        /\ (RegAddrInRange(args[2]) /\ Len(args[3]) = 256) =>
               (pc = "raised" /\ result.kind = "invalid_arg" /\ NothingSentOrRead)

\* C7 witness: i2c_write with 255 data bytes went past the argument checks.
C7_Witness ==
    /\ op = "i2c_write" /\ RegAddrInRange(args[2]) /\ Len(args[3]) = 255
    /\ pc = "raised" /\ result.kind = "struct_error"

(***************************************************************************)
(* The frames written.                                                     *)
(***************************************************************************)
\* the number of bytes between the length byte and the checksum: the
\* command byte and the payload laid out field by field
BodyLen ==
    CASE op = "uart_transfer" -> 1 + Len(args[1])
      [] op \in {"lcd_clear", "lcd_refresh"} -> 1 + 1
      [] op = "lcd_pixel" -> 1 + 4
      [] op = "lcd_text" -> 1 + 4 + Len(args[3])
      [] op \in {"led_set", "led_blink"} -> 1 + 3
      [] op = "buttons" -> 1
      [] op = "i2c_set_clock_khz" -> 1 + 3
      [] op = "i2c_read" -> 1 + 3 + RegAddrLen(args[2]) + 1
      [] op = "i2c_write" -> 1 + 3 + RegAddrLen(args[2]) + 1 + Len(args[3])
      [] op = "spi_config" -> 1 + 4
      [] op = "spi_transfer" -> 1 + 2 + Len(args[1])

\* the last frame written is [length] ++ body ++ [checksum]
WrittenFrameOk ==
    /\ Len(frame) >= 3
    /\ \A i \in 1..Len(frame) : frame[i] \in 0..255
    /\ frame[1] = Len(frame) - 2
    /\ frame[1] \in 1..255
    /\ frame[1] = BodyLen
    /\ frame[Len(frame)] = XorOfBytes(SubSeq(frame, 2, Len(frame) - 1))

\* C8: every write of a command puts on the wire [length] ++ body ++
\* [checksum] with length the number of body bytes, in 1..255, and
\* checksum the XOR of the body; a command whose body would be longer than
\* 255 bytes raises with nothing written.
C8_FrameLengthAndChecksum ==
    /\ [][(nwrites' # nwrites /\ op' # "init") => WrittenFrameOk']_vars
    /\ [](IsCommand =>
            /\ nwrites >= 1 =>
                 (frame[1] = Len(frame) - 2 /\ frame[1] \in 1..255
                  /\ frame[1] = BodyLen)
            /\ (InRange /\ BodyLen > 255) => (pc = "raised" /\ NothingSentOrRead))

\* C8 witness: a frame with a body of 255 bytes has been written.
C8_Witness ==
    IsCommand /\ nwrites = 1 /\ frame[1] = 255 /\ Len(frame) = 257

\* C9: a command writes at most one frame, writes it before it reads,
\* reads at most twice (the length byte, then the body), and when
\* _get_resp raises the call raises the same error and reads and writes
\* nothing more.
C9_AttemptOnce ==
    /\ [](IsCommand =>
            /\ nwrites <= 1
            /\ nreads <= 2
            /\ nreads >= 1 => nwrites = 1
            /\ pc \in {"get_resp_len", "get_resp_body"} => nwrites = 1
            /\ resp.kind # "none" => nwrites = 1
            /\ resp.kind \notin {"none", "ok"} => (pc = "raised" /\ result = resp))
    /\ [][(op' \notin {"none", "init"} /\ nwrites' # nwrites) =>
             (nreads' = 0 /\ nwrites' = 1)]_vars
    /\ [][(IsCommand /\ Terminal) =>
             (nreads' = nreads /\ nwrites' = nwrites /\ pc' = pc
              /\ result' = result)]_vars

\* C9 witness: a command whose response failed the checksum has raised.
C9_Witness ==
    IsCommand /\ pc = "raised" /\ resp.kind = "crc_error" /\ nreads = 2

\* C10: for a response delivered in full whose last byte differs in exactly
\* one bit from the XOR of its status and payload bytes, _get_resp raises
\* the checksum error, whatever the status byte.
C10_FlippedChecksumIsCrcError ==
    (IsCommand /\ Terminal /\ FullyDelivered
     /\ SingleBitApart(got[2][Len(got[2])],
                       XorOfBytes(SubSeq(got[2], 1, got[1][1])))) =>
        (pc = "raised" /\ resp.kind = "crc_error" /\ result.kind = "crc_error")

\* C10 witness: a response with a status other than OK and one flipped
\* checksum bit has been decoded.
C10_Witness ==
    /\ IsCommand /\ Terminal /\ FullyDelivered
    /\ got[1][1] >= 1
    /\ got[2][1] # CMD_RESP_OK
    /\ SingleBitApart(got[2][Len(got[2])],
                      XorOfBytes(SubSeq(got[2], 1, got[1][1])))
    /\ resp.kind = "crc_error"

(***************************************************************************)
(* Encoder and decoder together.                                           *)
(***************************************************************************)
\* C11: when the frame _make_cmd built for a command byte and a payload is
\* read back in full by _get_resp, the checksum always matches; if the
\* command byte (which sits where _get_resp looks for the status) is
\* CMD_RESP_OK, _get_resp returns exactly the payload bytes given to
\* _make_cmd (none when the payload was None), and otherwise it raises the
\* status error, which carries the command byte and the payload.
C11_RoundTrip ==
    (op = "_make_cmd" /\ Terminal /\ nwrites = 1 /\ FullyDelivered) =>
        LET cmd == args[1]
            data == IF args[2].t = "none" THEN <<>> ELSE args[2].v
        IN /\ got[1] \o got[2] = frame
           /\ got[2][1] = cmd
           /\ resp.kind \in {"ok", "status_error"}
           /\ IF cmd = CMD_RESP_OK
              THEN /\ resp.kind = "ok"
                   /\ resp.ret.t = "bytes"
                   /\ resp.ret.v = data
              ELSE /\ resp.kind = "status_error"
                   /\ resp.msg = <<cmd>> \o data

\* C11 witness: a frame with command byte CMD_RESP_OK and the payload
\* [255, 0] has been read back and the payload returned.
C11_Witness ==
    /\ op = "_make_cmd" /\ pc = "returned" /\ FullyDelivered
    /\ args[1] = CMD_RESP_OK
    /\ args[2].t = "bytes" /\ args[2].v = <<255, 0>>
    /\ resp.kind = "ok" /\ resp.ret.v = <<255, 0>>

\* C12: _crc of a byte sequence is the XOR of its bytes (0 for the empty
\* sequence) and is the same for the same bytes in any order; _crc of an
\* int b and _crc of the one-element sequence [b] are both b.
C12_CrcXorFoldAnyOrder ==
    (op = "_crc" /\ pc = "returned") =>
        LET a == args[1]
            b == args[2]
        IN /\ resp.ret = result.ret
           /\ IF a.t = "bytes"
              THEN /\ result.ret.v = XorOfBytes(a.v)
                   /\ a.v = <<>> => result.ret.v = 0
                   /\ Len(a.v) = 1 => result.ret.v = a.v[1]
              ELSE /\ result.ret.v = a.v
                   /\ b.v = <<a.v>>

\* C12 witness: _crc of [1, 6, 255] and of [255, 1, 6] are both 248.
C12_Witness ==
    /\ op = "_crc" /\ pc = "returned"
    /\ args[1].t = "bytes" /\ args[1].v = <<1, 6, 255>>
    /\ args[2].v = <<255, 1, 6>>
    /\ result.ret.v = 248 /\ resp.ret.v = 248

(***************************************************************************)
(* Register addresses given as integers.                                   *)
(***************************************************************************)
\* an unsigned integer register address
IsUnsigned(reg_addr) ==
    \/ reg_addr.t = "long"
    \/ reg_addr.t = "int" /\ reg_addr.v >= 0
\* the base-65536 digits of an unsigned integer
Limbs(reg_addr) ==
    IF reg_addr.t = "long" THEN reg_addr.v
    ELSE IF reg_addr.v < 65536 THEN <<reg_addr.v>>
    ELSE <<reg_addr.v \div 65536, reg_addr.v % 65536>>
\* a byte string without its leading zero bytes, its last byte kept
RECURSIVE StripZeros(_)
StripZeros(b) ==
    IF Len(b) > 1 /\ b[1] = 0 THEN StripZeros(Tail(b)) ELSE b
\* the big-endian bytes of the digits d, two per digit
DigitBytes(d) ==
    [i \in 1..(2 * Len(d)) |->
        IF i % 2 = 1 THEN d[(i + 1) \div 2] \div 256 ELSE d[i \div 2] % 256]
MinimalBigEndian(reg_addr) == StripZeros(DigitBytes(Limbs(reg_addr)))

\* C13: i2c_read and i2c_write called with an unsigned integer register
\* address n: if n needs more than four bytes (n >= 2^32) the call raises
\* the invalid-argument error with nothing written; otherwise every frame
\* written carries, after the device address, the number of bytes of n's
\* shortest big-endian form (at least 1, no leading zero byte unless that
\* form is the single byte 0), then those bytes, and for i2c_read then the
\* length the caller asked for; i2c_read with a length in 0..255 is written.
\* i2c_read(0x50, 0x10, 16) writes [6, I2C, I2C_READ, 0x50, 1, 0x10, 16, xor].
C13_MinimalBigEndianRegAddr ==
    (op \in {"i2c_read", "i2c_write"} /\ IsUnsigned(args[2])) =>
        LET k == RegAddrLen(args[2])
        IN IF k > 4
           THEN pc = "raised" /\ result.kind = "invalid_arg" /\ NothingSentOrRead
           ELSE /\ (op = "i2c_read" /\ args[3] \in 0..255) => nwrites = 1
                /\ nwrites = 1 =>
                     /\ frame[4] = args[1]
                     /\ frame[5] = k
                     /\ k = Len(MinimalBigEndian(args[2]))
                     /\ SubSeq(frame, 6, 5 + k) = MinimalBigEndian(args[2])
                     /\ frame[6] = 0 => k = 1
                     /\ op = "i2c_read" =>
                          /\ frame[6 + k] = args[3]
                          /\ Len(frame) = 7 + k
                     /\ (op = "i2c_read" /\ args[2].t = "int" /\ args[2].v = 16
                         /\ args[3] = 16) =>
                          frame = <<6, CMD_TYPE_I2C, CMD_I2C_READ, 80, 1, 16, 16,
                                    XorOfBytes(<<CMD_TYPE_I2C, CMD_I2C_READ, 80,
                                                 1, 16, 16>>)>>

\* C13 witness: i2c_read(0x50, 0x10, 16) has written its frame, with the
\* register address as the single byte 0x10.
C13_Witness ==
    /\ op = "i2c_read" /\ nwrites = 1
    /\ args[1] = 80 /\ args[2].t = "int" /\ args[2].v = 16 /\ args[3] = 16
    /\ frame[5] = 1 /\ frame[6] = 16 /\ frame[7] = 16

(***************************************************************************)
(* The serial port's life.                                                 *)
(***************************************************************************)
\* C14: the port is never closed before the session object is torn down;
\* teardown closes it exactly once if the constructor opened it, whether
\* the session made no call or its call returned or raised, and makes no
\* close call and raises nothing if the constructor failed to open it.
C14_ClosedOnceAtTeardown ==
    /\ closes \in {0, 1}
    /\ pc # "del_raised"
    /\ pc # "deleted" => closes = 0
    /\ pc = "deleted" => closes = (IF _serial = "Serial" THEN 1 ELSE 0)
    /\ pc \notin {"new", "unbuilt", "deleted"} => _serial = "Serial"
    /\ (pc = "deleted" /\ result.kind = "serial_error") =>
           (_serial = "None" /\ closes = 0)

\* C14 witness: a session whose init() failed has been torn down and the
\* port closed once.
C14_Witness ==
    /\ pc = "deleted" /\ closes = 1
    /\ op = "init" /\ result.kind = "reset_failure"

(***************************************************************************)
(* The reset handshake's acknowledgment.                                   *)
(***************************************************************************)
\* the next read of three bytes would return the acknowledgment
AckAtHand == Len(rx) >= 3 /\ SubSeq(rx, 1, 3) = ExpectedAck

\* C15: the frame init() compares with is [1, CMD_RESP_RESET,
\* CMD_RESP_RESET]; init() returns only by a read of its retry loop that
\* returned exactly these three bytes; a loop read that returned nothing,
\* fewer than three bytes or three other bytes never returns but goes on
\* to the resend, and the step after it writes the reset command again
\* before anything else is read.
C15_SuccessOnlyOnExactAck ==
    /\ [](reset_resp = ExpectedAck)
    /\ [](InitReturned => got = <<ExpectedAck>>)
    /\ [](pc = "init_resend" => (Len(got) = 1 /\ got[1] # ExpectedAck))
    /\ [][(op = "init" /\ pc # "returned" /\ pc' = "returned") =>
             (pc = "init_loop" /\ AckAtHand /\ nwrites' = nwrites)]_vars
    /\ [][(pc = "init_loop" /\ pc' # pc /\ ~AckAtHand) =>
             (pc' = "init_resend" /\ nreads' = nreads + 1 /\ nwrites' = nwrites)]_vars
    /\ [][(pc = "init_resend" /\ pc' # pc) =>
             (nwrites' = nwrites + 1 /\ frame' = <<CMD_TYPE_RESET>>
              /\ nreads' = nreads)]_vars

\* C15 witness: a loop read returned three bytes that are not the
\* acknowledgment, the reset command was written again and the loop goes on.
C15_Witness ==
    /\ op = "init" /\ pc = "init_loop" /\ trials >= 1
    /\ Len(got) = 1 /\ Len(got[1]) = 3 /\ got[1] # ExpectedAck
    /\ nwrites = trials + 1 /\ frame = <<CMD_TYPE_RESET>>

(***************************************************************************)
(* The order of _get_resp's two checks.                                    *)
(***************************************************************************)
\* C16: for a response delivered in full, a last byte that differs from
\* the XOR of the status and payload bytes makes _get_resp raise the
\* checksum error, whose message is formatted from the computed and the
\* received value, whatever the status byte is; the status error is raised
\* exactly when the checksum matches and the status is not CMD_RESP_OK,
\* and its message is formatted from the status and the payload.
C16_ChecksumBeforeStatus ==
    (IsCommand /\ Terminal /\ FullyDelivered) =>
        LET L == got[1][1]
            body == got[2]
            calc == XorOfBytes(SubSeq(body, 1, L))
            recv == body[L + 1]
        IN /\ calc # recv =>
                /\ resp.kind = "crc_error"
                /\ resp.msg = <<calc, recv>>
                /\ pc = "raised" /\ result = resp
           /\ resp.kind = "status_error" <=> (calc = recv /\ body[1] # CMD_RESP_OK)
           /\ resp.kind = "status_error" =>
                /\ resp.msg = <<body[1]>> \o SubSeq(body, 2, L)
                /\ pc = "raised" /\ result = resp

\* C16 witness: a response whose status is not CMD_RESP_OK and whose last
\* byte is not the XOR of the bytes before it was read in full, and the
\* checksum error was raised.
C16_Witness ==
    /\ IsCommand /\ pc = "raised" /\ FullyDelivered
    /\ got[1][1] = 2
    /\ got[2][1] = CMD_RESP_RESET
    /\ got[2][3] # XorOfBytes(SubSeq(got[2], 1, 2))
    /\ resp.kind = "crc_error"
    /\ resp.msg = <<XorOfBytes(SubSeq(got[2], 1, 2)), got[2][3]>>

(***************************************************************************)
(* Validation and encoding.                                                *)
(***************************************************************************)
\* C17, as claimed, for the two operations it names: an i2c_write or
\* spi_transfer call whose arguments pass the argument checks has a frame
\* body of at most 255 bytes and reaches the write; it does not raise while
\* its frame is being encoded.
C17_ValidatedArgsAreEncodable ==
    (op \in {"i2c_write", "spi_transfer"} /\ InRange) =>
        /\ BodyLen <= 255
        /\ result.kind # "struct_error"
        /\ nwrites = 1

(***************************************************************************)
(* What one call leaves in the serial port's input for the next.           *)
(***************************************************************************)
\* the bytes the two reads of _get_resp returned
BytesRead == IF Len(got) = 2 THEN got[1] \o got[2] ELSE <<>>

\* C18, as claimed: with a badge that acknowledges every reset command,
\* the first command after a successful init(), when both its reads
\* returned all the bytes they asked for, has read the response the badge
\* sent to it.
C18_FirstCommandReadsOwnResponse ==
    (/\ badge.answers
     /\ done = <<[op |-> "init", kind |-> "ok"]>>
     /\ IsCommand /\ Terminal /\ FullyDelivered) =>
        BytesRead = sent

\* C19: with a badge that answers every command frame with one complete
\* frame that has arrived in full when it is read, every command that has
\* written its frame finds its own response, and nothing else, in the
\* input; when the call ends, whether it returned or raised the checksum
\* or the status error (or buttons failed on an empty payload), it has
\* read all resp_len + 2 bytes of that response and the input is empty.
C19_FrameBoundariesKept ==
    (badge.answers /\ badge.prompt /\ IsCommand) =>
        /\ wire = <<>>
        /\ pc = "get_resp_len" => rx = sent
        /\ pc = "get_resp_body" =>
               (got = <<<<sent[1]>>>> /\ rx = Tail(sent) /\ resp_len = sent[1])
        /\ Terminal =>
               /\ rx = <<>>
               /\ nwrites = 1 /\ FullyDelivered
               /\ BytesRead = sent
               /\ Len(BytesRead) = resp_len + 2
               /\ resp.kind \in {"ok", "crc_error", "status_error"}

\* C19 witness: after a command that raised the checksum error, the next
\* command has read its own four-byte response and returned.
C19_Witness ==
    /\ badge.answers /\ badge.prompt
    /\ Len(done) >= 1 /\ done[Len(done)].kind = "crc_error"
    /\ IsCommand /\ pc = "returned" /\ resp.kind = "ok"
    /\ Len(sent) = 4 /\ BytesRead = sent

=============================================================================
